---- MODULE Spec2Model ----
(***************************************************************************)
(* The labour-market series service (services/ineService.ts) and the       *)
(* promise its caller awaits; the application that calls it (App.tsx:      *)
(* its state, event handlers, effects and the continuation of loadData);   *)
(* and the memoized values of the chart (components/ChartContainer.tsx).   *)
(* Each of the three has a specification of its own; the variables of the  *)
(* parts a specification leaves out keep their initial values.             *)
(*                                                                         *)
(* Numbers.  The service computes in IEEE doubles; the model computes in   *)
(* fixed point.  A quantity is an integer count of Unit-ths (1e-5), the    *)
(* sine terms are carried at SinUnit-ths (1e-8) until they are added to    *)
(* the level, and a returned value (the result of toFixed(2)) is an        *)
(* integer count of hundredths.  The returned hundredths are those of the  *)
(* doubles, except for a few constant-basis wages that differ in the last  *)
(* hundredth.  Of the two versions of the service that ineService.ts       *)
(* holds, the later one (lines 147-294) is the one modelled: its           *)
(* definitions are the ones in effect.                                     *)
(*                                                                         *)
(* Strings.  A period string is built digit by digit and read code unit    *)
(* by code unit, so that formatting, parsing and lexicographic order are   *)
(* computed.  The                                                          *)
(* category label "Castile and Le..n" holds two non-ASCII code units in    *)
(* the source; they are written A3 here, keeping the length (17).          *)
(***************************************************************************)
EXTENDS Integers, Sequences, FiniteSets, TLC

VARIABLES args, pc, categories, data, earlier, app, effects, pending, userEvents, props, rendered,
          panel

vars == <<args, pc, categories, data, earlier,
          app, effects, pending, userEvents, props, rendered, panel>>

(***************************** types.ts ***********************************)

UNEMPLOYMENT_RATE == "Unemployment Rate"
LABOR_FORCE_RATE == "Labor Force Rate"
EMPLOYMENT_RATE == "Employment Rate"
MONTHLY_WAGE == "Monthly Wage"

IndicatorType == {UNEMPLOYMENT_RATE, LABOR_FORCE_RATE, EMPLOYMENT_RATE, MONTHLY_WAGE}

NOMINAL == "Nominal"
CONSTANT_WAGE == "Constant"

WageType == {NOMINAL, CONSTANT_WAGE}

\* the optional parameter wageType left out by the caller
undefined == "undefined"

REGION == "Autonomous Community"
EDUCATION == "Education Level"
AGE_GROUP == "Age Group"
GENDER == "Gender"

CharacteristicType == {REGION, EDUCATION, AGE_GROUP, GENDER}

QUARTERLY == "Quarterly"
ANNUAL == "Annual"

FrequencyType == {QUARTERLY, ANNUAL}

(************************* arithmetic of the model ************************)

Unit == 10 ^ 5
SinUnit == 10 ^ 8

Max(a, b) == IF a >= b THEN a ELSE b

\* a / b rounded to the nearest integer (b > 0)
RoundDiv(a, b) == (2 * a + b) \div (2 * b)

\* a quantity in SinUnit-ths as a quantity in Unit-ths
ToUnit(s) == RoundDiv(s, SinUnit \div Unit)

\* Math.sin(x) in SinUnit-ths, by its argument doubled (the service calls it
\* on q * 1.5 and on whole numbers): the values of the library function on
\* the arguments the service can pass for the years 2002..2024.
SinSeasonal ==
   <<
      99749499, 14112001, -97753012, -27941550
   >>

SinOfYearSeed ==
   <<
      9736191, 89007806, 86446054, 4406199, -81684695, -92675057, -18460399, 72726665, 97049169,
      32145114, -62313010, -99480840, -45186445, 50652160, 99921402, 57323368, -37977506,
      -98362036, -68312964, 24542732, 94833954, 77935275, -10616736, -89407769, -85997712,
      -3521755, 82192087, 92338903, 17589758, -73331330, -96831931, -31305701, 63002846, 99386867,
      44395061, -51413360, -99952574, -56595853, 38794834, 98517730, 67663879, -25399830,
      -95111053, -77377612
   >>

SinOfQuarterSeed ==
   <<
      36381726, 98037657, 69558219, -22872726, -94274591, -79000832, 8905927, 88624619, 86862244,
      5239123, -81200824, -92985108, -19279313, 72151794, 97246873, 32933626, -61658645,
      -99562242, -45928773, 49931398, 99884872, 58004656, -37204774, -98208306, -68919574,
      23733496, 94566100, 78455067, -9787192, -89031152, -86420282, -4355003, 81714246, 92655793,
      18410032, -72761828, -97036799, -32096584, 62353082, 99475612, 45140723, -50696338,
      -99923420, -57281371, 38024907, 98371261, 68275531, -24592407, -94850199, -77903156,
      10667690, 89430711, 85971548, 3470541, -82221266, -92319220, -17539309, 73366162, 96819122,
      31257028, -63042633, -99381188, -44349137, 51457306, 99954139, 56553598, -38842061,
      -98526508, -67626138, 25449392, 95126868, 77345140, -11547352, -89823262, -85516079,
      -2585807, 82721844, 91975413, 16667212, -73964748, -96593859, -30415022, 63727246, 99278978,
      43554075, -52214243, -99977027, -55821394, 39656172, 98674036, 66971446, -26304382,
      -95396083, -76781065, 12426110, 90208777, 85053910, 1700871, -83215941, -91624401,
      -15793809, 74557538, 96361029, 29570634, -64406866, -99168990, -42755602, 52967089,
      99992082, 55084816, -40467176, -98813833, -66311508
   >>

MathSin(x2) ==
   CASE x2 \in {3, 6, 9, 12} -> SinSeasonal[x2 \div 3]
     [] x2 % 2 = 0 /\ (x2 \div 2) \in 2017..2060 -> SinOfYearSeed[(x2 \div 2) - 2016]
     [] x2 % 2 = 0 /\ (x2 \div 2) \in 8024..8136 -> SinOfQuarterSeed[(x2 \div 2) - 8023]

\* n * f / SinUnit for a quantity n (Unit-ths, below 1e9) and a factor f
\* (SinUnit-ths, below 2e8), in limbs of 1e4 so that no product passes 2^31
MulFixed(n, f) ==
   LET n1 == n \div 10000
       n0 == n % 10000
       f1 == f \div 10000
       f0 == f % 10000
   IN  n1 * f1 + RoundDiv(n1 * f0 + n0 * f1 + (n0 * f0) \div 10000, 10000)

\* Math.pow(1 + annualRate, n) in SinUnit-ths, annualRate = 0.022, n >= 0
RECURSIVE MathPow(_)
MathPow(n) ==
   IF n = 0 THEN SinUnit
   ELSE LET p == MathPow(n - 1)
        IN  p + (p \div 1000) * 22 + RoundDiv((p % 1000) * 22, 1000)

\* parseFloat(value.toFixed(2)) in hundredths, value >= 0 in Unit-ths
ToFixed2(value) == RoundDiv(value, Unit \div 100)

(************************* services/ineService.ts *************************)

MOCK_REGIONS ==
   <<"Total", "Madrid", "Catalonia", "Andalusia", "Basque Country", "Valencia",
     "Galicia", "Castile and LeA3n", "Canary Islands", "Murcia", "Aragon">>

MOCK_EDUCATION ==
   <<"Total", "Primary", "Secondary", "Vocational Training", "Higher Education">>

MOCK_AGE_GROUPS == <<"Total", "16-24", "25-54", "55+">>

\* the catalogue without the aggregate category
GendersWithoutTotal == <<"Male", "Female">>

MOCK_GENDERS == <<"Total", "Male", "Female">>

\* the switch with the GENDER case and the default left out
getAvailableItemsNoDefault(characteristic) ==
   CASE characteristic = REGION -> MOCK_REGIONS
     [] characteristic = EDUCATION -> MOCK_EDUCATION
     [] characteristic = AGE_GROUP -> MOCK_AGE_GROUPS
     [] OTHER -> undefined

getAvailableItems(characteristic) ==
   CASE characteristic = REGION -> MOCK_REGIONS
     [] characteristic = EDUCATION -> MOCK_EDUCATION
     [] characteristic = AGE_GROUP -> MOCK_AGE_GROUPS
     [] characteristic = GENDER -> MOCK_GENDERS
     [] OTHER -> << >>

\* categories.forEach of an undefined receiver throws a TypeError
Throws(receiver) == receiver = undefined

ageCenter2(q) == q.minAge + q.maxAge

isYouthFocus(q) == q.maxAge <= 30

isSeniorFocus(q) == q.minAge >= 55

\* baseValue after the age-based adjustment; ageCenter is compared doubled
baseValue(q) ==
   CASE q.indicator = UNEMPLOYMENT_RATE ->
          IF isYouthFocus(q) THEN 32
          ELSE IF isSeniorFocus(q) THEN 12
          ELSE IF ageCenter2(q) > 60 /\ ageCenter2(q) < 100 THEN 11
          ELSE 15
     [] q.indicator = LABOR_FORCE_RATE ->
          IF isYouthFocus(q) THEN 35
          ELSE IF isSeniorFocus(q) THEN 25
          ELSE 82
     [] q.indicator = MONTHLY_WAGE ->
          IF isYouthFocus(q) THEN 950
          ELSE IF isSeniorFocus(q) THEN 1750
          ELSE 1525
     [] q.indicator = EMPLOYMENT_RATE -> 50

\* the reference year of the constant-currency basis
RefYear == 2024

\* the factor counted from the year after the reference year
inflationFactorFromNextYear(year) == MathPow(RefYear + 1 - year)

inflationFactor(year) == MathPow(RefYear - year)

seed(q, cat) == Len(cat) + Len(q.indicator)

\* the adjustment without the corrections of the named categories
catAdjustmentBySeedOnly(q, cat) ==
   IF cat = "Total" THEN 0
   ELSE IF q.indicator = MONTHLY_WAGE
        THEN ((seed(q, cat) % 20) - 10) * 40
        ELSE (seed(q, cat) % 8) - 4

\* the adjustment with the wage corrections of the named categories negated
catAdjustmentWageCorrectionsNegated(q, cat) ==
   IF cat = "Total" THEN 0
   ELSE IF q.indicator = MONTHLY_WAGE
        THEN ((seed(q, cat) % 20) - 10) * 40
             - (IF cat = "Madrid" \/ cat = "Basque Country" THEN 400 ELSE 0)
             + (IF cat = "Andalusia" \/ cat = "Canary Islands" THEN 250 ELSE 0)
             - (IF cat = "Higher Education" THEN 800 ELSE 0)
             + (IF cat = "Primary" THEN 400 ELSE 0)
        ELSE (seed(q, cat) % 8) - 4
             - (IF cat = "Madrid" \/ cat = "Basque Country" THEN 3 ELSE 0)
             + (IF cat = "Andalusia" \/ cat = "Canary Islands" THEN 5 ELSE 0)
             - (IF cat = "Higher Education" THEN 6 ELSE 0)

catAdjustment(q, cat) ==
   IF cat = "Total" THEN 0
   ELSE IF q.indicator = MONTHLY_WAGE
        THEN ((seed(q, cat) % 20) - 10) * 40
             + (IF cat = "Madrid" \/ cat = "Basque Country" THEN 400 ELSE 0)
             - (IF cat = "Andalusia" \/ cat = "Canary Islands" THEN 250 ELSE 0)
             + (IF cat = "Higher Education" THEN 800 ELSE 0)
             - (IF cat = "Primary" THEN 400 ELSE 0)
        ELSE (seed(q, cat) % 8) - 4
             - (IF cat = "Madrid" \/ cat = "Basque Country" THEN 3 ELSE 0)
             + (IF cat = "Andalusia" \/ cat = "Canary Islands" THEN 5 ELSE 0)
             - (IF cat = "Higher Education" THEN 6 ELSE 0)

\* the unemployment offset falling by one point a year before 2008
cycleImpactDecliningBefore2008(q, y) ==
   LET yearIndex == y - 2002
   IN  CASE q.indicator = UNEMPLOYMENT_RATE ->
              IF y < 2008 THEN (-yearIndex) * Unit
              ELSE IF y >= 2008 /\ y < 2013 THEN (y - 2008) * 3 * Unit
              ELSE IF y >= 2013 /\ y < 2020 THEN 15 * Unit - ((y - 2013) * 15 * Unit) \div 10
              ELSE IF y = 2020 THEN 3 * Unit
              ELSE (-2) * Unit
         [] q.indicator = MONTHLY_WAGE ->
              ( yearIndex * 35
                - (IF y >= 2008 /\ y < 2014 THEN (y - 2008) * 12 ELSE 0)
                + (IF y >= 2021 THEN (y - 2021) * 30 ELSE 0) ) * Unit
         [] OTHER -> 0

\* cycleImpact(y) in Unit-ths; yearIndex is that of the loop's year, which is y
cycleImpact(q, y) ==
   LET yearIndex == y - 2002
   IN  CASE q.indicator = UNEMPLOYMENT_RATE ->
              IF y < 2008 THEN (-5) * Unit
              ELSE IF y >= 2008 /\ y < 2013 THEN (y - 2008) * 3 * Unit
              ELSE IF y >= 2013 /\ y < 2020 THEN 15 * Unit - ((y - 2013) * 15 * Unit) \div 10
              ELSE IF y = 2020 THEN 3 * Unit
              ELSE (-2) * Unit
         [] q.indicator = MONTHLY_WAGE ->
              ( yearIndex * 35
                - (IF y >= 2008 /\ y < 2014 THEN (y - 2008) * 12 ELSE 0)
                + (IF y >= 2021 THEN (y - 2021) * 30 ELSE 0) ) * Unit
         [] OTHER -> 0

\* the floors of Math.max
WageFloor == 700
RateFloor == 2

\* baseValue + catAdjustment + cycleImpact(year), in Unit-ths
Level(q, cat, year) == (baseValue(q) + catAdjustment(q, cat)) * Unit + cycleImpact(q, year)

\* the sum the annual branch hands to Math.max, in Unit-ths
AnnualSum(q, cat, year) ==
   LET volatilitySeed == (MathSin(2 * (year + seed(q, cat))) * 4) \div 10
   IN  IF q.indicator = MONTHLY_WAGE
       THEN LET volatility == volatilitySeed * 15
            IN  Level(q, cat, year) + ToUnit(volatility)
       ELSE Level(q, cat, year) + ToUnit(volatilitySeed)

\* the annual branch with the floor applied after the inflation factor
AnnualValueClampLast(q, cat, year) ==
   IF q.indicator = MONTHLY_WAGE
   THEN Max(WageFloor * Unit,
            IF q.wageType = CONSTANT_WAGE
            THEN MulFixed(AnnualSum(q, cat, year), inflationFactor(year))
            ELSE AnnualSum(q, cat, year))
   ELSE Max(RateFloor * Unit, AnnualSum(q, cat, year))

\* the value of the annual branch before toFixed, in Unit-ths
AnnualValueNoCycle(q, cat, year) ==
   Max(IF q.indicator = MONTHLY_WAGE THEN WageFloor * Unit ELSE RateFloor * Unit,
       AnnualSum(q, cat, year) - cycleImpact(q, year))

AnnualValue(q, cat, year) ==
   IF q.indicator = MONTHLY_WAGE
   THEN LET nominalValue == Max(WageFloor * Unit, AnnualSum(q, cat, year))
        IN  IF q.wageType = CONSTANT_WAGE
            THEN MulFixed(nominalValue, inflationFactor(year))
            ELSE nominalValue
   ELSE Max(RateFloor * Unit, AnnualSum(q, cat, year))

\* the quarterly sum with the seasonal term left out of the wage
QuarterSumSeasonalForRatesOnly(q, cat, year, qtr) ==
   LET seasonal == (MathSin(qtr * 3) * 5) \div 10
       volatilitySeed == (MathSin(2 * (year * 4 + qtr + seed(q, cat))) * 3) \div 10
   IN  IF q.indicator = MONTHLY_WAGE
       THEN LET volatility == volatilitySeed * 10
            IN  Level(q, cat, year) + ToUnit(volatility)
       ELSE Level(q, cat, year) + ToUnit(seasonal + volatilitySeed)

\* the sum the quarterly branch hands to Math.max, in Unit-ths
QuarterSum(q, cat, year, qtr) ==
   LET seasonal == (MathSin(qtr * 3) * 5) \div 10
       volatilitySeed == (MathSin(2 * (year * 4 + qtr + seed(q, cat))) * 3) \div 10
   IN  IF q.indicator = MONTHLY_WAGE
       THEN LET volatility == volatilitySeed * 10
            IN  Level(q, cat, year) + ToUnit(seasonal * 10 + volatility)
       ELSE Level(q, cat, year) + ToUnit(seasonal + volatilitySeed)

\* the quarterly branch with the value basis applied to every indicator
QuarterValueAnyIndicator(q, cat, year, qtr) ==
   LET nominalValue == Max(IF q.indicator = MONTHLY_WAGE THEN WageFloor * Unit ELSE RateFloor * Unit,
                           QuarterSum(q, cat, year, qtr))
   IN  IF q.wageType = CONSTANT_WAGE
       THEN MulFixed(nominalValue, inflationFactor(year))
       ELSE nominalValue

\* the value of the quarterly branch before toFixed, in Unit-ths
QuarterValue(q, cat, year, qtr) ==
   IF q.indicator = MONTHLY_WAGE
   THEN LET nominalValue == Max(WageFloor * Unit, QuarterSum(q, cat, year, qtr))
        IN  IF q.wageType = CONSTANT_WAGE
            THEN MulFixed(nominalValue, inflationFactor(year))
            ELSE nominalValue
   ELSE Max(RateFloor * Unit, QuarterSum(q, cat, year, qtr))

\* the decimal digits of n >= 0, as a template literal prints a number
RECURSIVE Digits(_)
Digits(n) ==
   IF n < 10 THEN SubSeq("0123456789", n + 1, n + 1)
   ELSE Digits(n \div 10) \o SubSeq("0123456789", (n % 10) + 1, (n % 10) + 1)

AnnualPeriod(year) == Digits(year)

\* the template with its two numbers swapped
QuarterPeriodSwapped(year, qtr) == Digits(qtr) \o "Q" \o Digits(year)

\* the template without its second number
QuarterPeriodWithoutQuarter(year, qtr) == Digits(year) \o "Q"

QuarterPeriod(year, qtr) == Digits(year) \o "Q" \o Digits(qtr)

AnnualPoint(q, cat, year) ==
   [period |-> AnnualPeriod(year), year |-> year, category |-> cat,
    value |-> ToFixed2(AnnualValue(q, cat, year))]

QuarterPoint(q, cat, year, qtr) ==
   [period |-> QuarterPeriod(year, qtr), year |-> year, category |-> cat,
    value |-> ToFixed2(QuarterValue(q, cat, year, qtr))]

\* the quarters pushed last first
RECURSIVE QuarterLoopReversed(_, _, _, _)
QuarterLoopReversed(q, cat, year, qtr) ==
   IF qtr <= 4
   THEN QuarterLoopReversed(q, cat, year, qtr + 1) \o <<QuarterPoint(q, cat, year, qtr)>>
   ELSE << >>

\* the loop with q < 4 for its condition
RECURSIVE QuarterLoopExclusive(_, _, _, _)
QuarterLoopExclusive(q, cat, year, qtr) ==
   IF qtr < 4
   THEN <<QuarterPoint(q, cat, year, qtr)>> \o QuarterLoopExclusive(q, cat, year, qtr + 1)
   ELSE << >>

\* for (let q = 1; q <= 4; q++) push
RECURSIVE QuarterLoop(_, _, _, _)
QuarterLoop(q, cat, year, qtr) ==
   IF qtr <= 4
   THEN <<QuarterPoint(q, cat, year, qtr)>> \o QuarterLoop(q, cat, year, qtr + 1)
   ELSE << >>

\* the pushes of one iteration of the year loop
YearBody(q, cat, year) ==
   IF q.frequency = ANNUAL
   THEN <<AnnualPoint(q, cat, year)>>
   ELSE QuarterLoop(q, cat, year, 1)

\* the loop with year < endYear for its condition
RECURSIVE YearLoopExclusive(_, _, _)
YearLoopExclusive(q, cat, year) ==
   IF year < q.endYear
   THEN YearBody(q, cat, year) \o YearLoopExclusive(q, cat, year + 1)
   ELSE << >>

\* for (let year = startYear; year <= endYear; year++)
RECURSIVE YearLoop(_, _, _)
YearLoop(q, cat, year) ==
   IF year <= q.endYear
   THEN YearBody(q, cat, year) \o YearLoop(q, cat, year + 1)
   ELSE << >>

\* categories.forEach, from the i-th category on
RECURSIVE ForEachCategory(_, _, _)
ForEachCategory(q, cats, i) ==
   IF i <= Len(cats)
   THEN YearLoop(q, cats[i], q.startYear) \o ForEachCategory(q, cats, i + 1)
   ELSE << >>

(****************************** the queries *******************************)

\* the years the caller offers (App.tsx: 23 years from 2002)
FirstYear == 2002
NumYears == 23
Years == FirstYear..(FirstYear + NumYears - 1)

\* the longest year range of a checked query is MaxSpan + 1 years
MaxSpan == 1

\* one age range for each branch of the age-based adjustment: the caller's
\* default, a youth focus, a senior focus, and a range that is none of them
AgeRanges == {<<16, 64>>, <<16, 30>>, <<55, 75>>, <<45, 75>>}

YearRanges == {r \in Years \X (0..MaxSpan) : r[1] + r[2] \in Years}

Queries ==
   { [indicator |-> i, characteristic |-> c, frequency |-> f,
      startYear |-> r[1], endYear |-> r[1] + r[2],
      minAge |-> a[1], maxAge |-> a[2], wageType |-> w] :
        i \in IndicatorType, c \in CharacteristicType, f \in FrequencyType,
        r \in YearRanges, a \in AgeRanges, w \in WageType \cup {undefined} }

(******************************** strings *********************************)

Range(s) == {s[i] : i \in DOMAIN s}

\* one UTF-16 code unit of a period string: a decimal digit or "Q"
Char(str, i) == SubSeq(str, i, i)

IsDigit(c) == c \in {"0", "1", "2", "3", "4", "5", "6", "7", "8", "9"}

CodeUnit(c) ==
   CASE c = "0" -> 48 [] c = "1" -> 49 [] c = "2" -> 50 [] c = "3" -> 51 [] c = "4" -> 52
     [] c = "5" -> 53 [] c = "6" -> 54 [] c = "7" -> 55 [] c = "8" -> 56 [] c = "9" -> 57
     [] c = "Q" -> 81

\* a < b on strings: the first differing code unit decides, a proper prefix is less
RECURSIVE LessFrom(_, _, _)
LessFrom(a, b, i) ==
   IF i > Len(a) THEN i <= Len(b)
   ELSE IF i > Len(b) THEN FALSE
   ELSE IF CodeUnit(Char(a, i)) # CodeUnit(Char(b, i))
        THEN CodeUnit(Char(a, i)) < CodeUnit(Char(b, i))
        ELSE LessFrom(a, b, i + 1)

StringLess(a, b) == LessFrom(a, b, 1)

\* period.includes('Q')
IncludesQ(period) == \E i \in 1..Len(period) : Char(period, i) = "Q"

\* the number the leading decimal digits of a string spell (parseInt)
RECURSIVE LeadingInt(_, _, _)
LeadingInt(str, i, acc) ==
   IF i <= Len(str) /\ IsDigit(Char(str, i))
   THEN LeadingInt(str, i + 1, acc * 10 + (CodeUnit(Char(str, i)) - 48))
   ELSE acc

YearComponent(period) == LeadingInt(period, 1, 0)

(********************** the application before mounting *******************)

\* the useState initial values of App
AppInitial ==
   [indicator |-> UNEMPLOYMENT_RATE, wageType |-> CONSTANT_WAGE,
    characteristic |-> REGION, frequency |-> QUARTERLY,
    startYear |-> 2014, endYear |-> 2024, minAge |-> 16, maxAge |-> 64,
    selectedItems |-> << >>, showEvents |-> TRUE,
    rawData |-> << >>, loading |-> TRUE]

\* the application is not part of the behaviour: nothing of it is mounted
AppNotMounted ==
   /\ app = AppInitial
   /\ effects = {}
   /\ pending = 0
   /\ userEvents = 0

\* the props and the memoized values of a ChartContainer that is not rendered
NoProps == [data |-> << >>, showEvents |-> FALSE]

NotRendered == [done |-> FALSE, chartData |-> << >>, isQuarterly |-> FALSE, recessionAreas |-> << >>]

ChartNotMounted ==
   /\ props = NoProps
   /\ rendered = NotRendered

\* the state of an AnalysisPanel at its first render: useState('') and useState(false),
\* with the numbers of generations started and settled and of Clear clicks
PanelInitial == [analysis |-> "", loading |-> FALSE, started |-> 0, settled |-> 0, cleared |-> 0]

\* the panel is not part of the behaviour: none of its buttons is clicked
PanelUntouched == panel = PanelInitial

(************************** the call and its promise **********************)

\* the array hoisted out of the function: each call pushes onto the last one's
StaleData == data

\* const data: DataPoint[] = []
FreshData == << >>

Init ==
   /\ args \in Queries
   /\ pc = "called"
   /\ categories = << >>
   /\ data = << >>
   /\ earlier = << >>
   /\ AppNotMounted
   /\ ChartNotMounted
   /\ PanelUntouched

\* the body of the async function: it runs to its return without awaiting,
\* and the promise settles with the array it filled or with what it threw
fetchLaborData ==
   /\ pc = "called"
   /\ categories' = getAvailableItems(args.characteristic)
   /\ IF Throws(categories')
      THEN /\ pc' = "rejected"
           /\ data' = FreshData
      ELSE /\ pc' = "fulfilled"
           /\ data' = FreshData \o ForEachCategory(args, categories', 1)
   /\ UNCHANGED <<args, earlier, app, effects, pending, userEvents, props, rendered, panel>>

\* the caller calls again once the promise has settled, with the same
\* arguments or with the other frequency, and keeps what the first call returned
Call(q) ==
   /\ pc = "fulfilled"
   /\ args' = q
   /\ pc' = "called"
   /\ earlier' = IF earlier = << >> THEN <<[args |-> args, data |-> data]>> ELSE earlier
   /\ UNCHANGED <<categories, data, app, effects, pending, userEvents, props, rendered, panel>>

OtherFrequency(q) ==
   [q EXCEPT !.frequency = IF q.frequency = ANNUAL THEN QUARTERLY ELSE ANNUAL]

Next == fetchLaborData

Spec == Init /\ [][Next]_vars

\* the age range the application passes (App.tsx: minAge 16, maxAge 64)
AppQueries == {q \in Queries : q.minAge = 16 /\ q.maxAge = 64}

InitRepeat ==
   /\ args \in AppQueries
   /\ pc = "called"
   /\ categories = << >>
   /\ data = << >>
   /\ earlier = << >>
   /\ AppNotMounted
   /\ ChartNotMounted
   /\ PanelUntouched

NextRepeat ==
   \/ fetchLaborData
   \/ Call(args)
   \/ Call(OtherFrequency(args))

SpecRepeat == InitRepeat /\ [][NextRepeat]_vars

(***************************** the application ****************************)

\* Array.prototype.includes
includes(arr, x) == \E i \in DOMAIN arr : arr[i] = x

\* Array.prototype.slice(start, end), both within 0..
slice(arr, start, end) == SubSeq(arr, start + 1, IF end < Len(arr) THEN end ELSE Len(arr))

\* getAvailableItems(characteristic), memoized on the characteristic
allItems == getAvailableItems(app.characteristic)

\* the selection of the effect taken from the end of the catalogue
DefaultSelectionFromEnd(items) == slice(items, IF Len(items) > 4 THEN Len(items) - 4 ELSE 0, Len(items))

\* "Select Total and major regions by default"
DefaultSelection(items) == slice(items, 0, 4)

\* a filter that takes an empty selection for no filter at all
filteredDataAllWhenNoneSelected ==
   IF app.selectedItems = << >> THEN app.rawData
   ELSE SelectSeq(app.rawData, LAMBDA d : includes(app.selectedItems, d.category))

\* rawData.filter(d => selectedItems.includes(d.category))
filteredData == SelectSeq(app.rawData, LAMBDA d : includes(app.selectedItems, d.category))

\* what the main section shows: the spinner, the chart or the "No data found" panel
View ==
   IF app.loading THEN "spinner"
   ELSE IF Len(filteredData) > 0 THEN "chart"
   ELSE "noData"

\* the arguments of a loadData that closed over the first render's state
QueryOfFirstRender(a) ==
   [indicator |-> AppInitial.indicator, characteristic |-> AppInitial.characteristic,
    frequency |-> AppInitial.frequency, startYear |-> AppInitial.startYear,
    endYear |-> AppInitial.endYear, minAge |-> AppInitial.minAge,
    maxAge |-> AppInitial.maxAge, wageType |-> AppInitial.wageType]

\* the arguments loadData passes to fetchLaborData
Query(a) ==
   [indicator |-> a.indicator, characteristic |-> a.characteristic,
    frequency |-> a.frequency, startYear |-> a.startYear, endYear |-> a.endYear,
    minAge |-> a.minAge, maxAge |-> a.maxAge, wageType |-> a.wageType]

\* the number of user events of a checked behaviour
MaxEvents == 2

\* the years of the two selects the checked behaviours pick: the first
\* offered year and the two defaults, the second of which is the last one
SampledYears == {y \in Years : y = FirstYear \/ y = AppInitial.startYear \/ y = AppInitial.endYear}

\* no effect is waiting to run and no loadData is waiting for its promise
Idle == effects = {} /\ pending = 0

\* a state update of an event handler, the render and the commit that
\* follow it; the effects whose dependencies changed are left to run
Commit(next, changed) ==
   /\ Idle
   /\ userEvents < MaxEvents
   /\ app' = next
   /\ effects' = changed
   /\ userEvents' = userEvents + 1
   /\ UNCHANGED <<args, pc, categories, data, earlier, pending, props, rendered, panel>>

setIndicator(v) ==
   /\ v # app.indicator
   /\ Commit([app EXCEPT !.indicator = v], {"loadData"})

\* the buttons are rendered for the monthly wage only
setWageType(w) ==
   /\ app.indicator = MONTHLY_WAGE
   /\ w # app.wageType
   /\ Commit([app EXCEPT !.wageType = w], {"loadData"})

setCharacteristic(c) ==
   /\ c # app.characteristic
   /\ Commit([app EXCEPT !.characteristic = c], {"setSelectedItems", "loadData"})

setFrequency(f) ==
   /\ f # app.frequency
   /\ Commit([app EXCEPT !.frequency = f], {"loadData"})

setStartYear(y) ==
   /\ y # app.startYear
   /\ Commit([app EXCEPT !.startYear = y], {"loadData"})

\* the options of the second select are the years from startYear on
setEndYear(y) ==
   /\ y >= app.startYear
   /\ y # app.endYear
   /\ Commit([app EXCEPT !.endYear = y], {"loadData"})

toggleItem(item) ==
   Commit([app EXCEPT !.selectedItems =
              IF includes(@, item)
              THEN SelectSeq(@, LAMBDA i : i # item)
              ELSE Append(@, item)], {})

selectAll == Commit([app EXCEPT !.selectedItems = allItems], {})

clear == Commit([app EXCEPT !.selectedItems = << >>], {})

\* the effects of a commit without the effect of the default selection
RunEffectsWithoutDefaultSelection ==
   /\ effects # {}
   /\ app' = [app EXCEPT !.loading = IF "loadData" \in effects THEN TRUE ELSE @]
   /\ IF "loadData" \in effects
      THEN /\ args' = Query(app)
           /\ pc' = "called"
           /\ pending' = pending + 1
      ELSE UNCHANGED <<args, pc, pending>>
   /\ effects' = {}
   /\ UNCHANGED <<categories, data, earlier, userEvents, props, rendered, panel>>

\* the effects of a commit, in the order of their declaration: the default
\* selection, then loadData up to its await (the call of fetchLaborData)
RunEffects ==
   /\ effects # {}
   /\ app' = [app EXCEPT
                !.selectedItems = IF "setSelectedItems" \in effects THEN DefaultSelection(allItems) ELSE @,
                !.loading = IF "loadData" \in effects THEN TRUE ELSE @]
   /\ IF "loadData" \in effects
      THEN /\ args' = Query(app)
           /\ pc' = "called"
           /\ pending' = pending + 1
      ELSE UNCHANGED <<args, pc, pending>>
   /\ effects' = {}
   /\ UNCHANGED <<categories, data, earlier, userEvents, props, rendered, panel>>

\* loadData without its finally block: setLoading(false) at the end of the try block
loadDataSettledWithoutFinally ==
   /\ pending > 0
   /\ pc \in {"fulfilled", "rejected"}
   /\ app' = [app EXCEPT !.rawData = IF pc = "fulfilled" THEN data ELSE @,
                         !.loading = IF pc = "fulfilled" THEN FALSE ELSE @]
   /\ pending' = pending - 1
   /\ UNCHANGED <<args, pc, categories, data, earlier, effects, userEvents, props, rendered, panel>>

\* loadData after its await: setRawData in the try block, console.error in
\* the catch block, setLoading(false) in the finally block
loadDataSettled ==
   /\ pending > 0
   /\ pc \in {"fulfilled", "rejected"}
   /\ app' = [app EXCEPT !.rawData = IF pc = "fulfilled" THEN data ELSE @,
                         !.loading = FALSE]
   /\ pending' = pending - 1
   /\ UNCHANGED <<args, pc, categories, data, earlier, effects, userEvents, props, rendered, panel>>

\* the application after its first render: both effects are to run
InitApp ==
   /\ app = AppInitial
   /\ effects = {"setSelectedItems", "loadData"}
   /\ pending = 0
   /\ userEvents = 0
   /\ args = Query(AppInitial)
   /\ pc = "idle"
   /\ categories = << >>
   /\ data = << >>
   /\ earlier = << >>
   /\ ChartNotMounted
   /\ PanelUntouched

NextApp ==
   \/ RunEffects
   \/ fetchLaborData
   \/ loadDataSettled
   \/ \E v \in IndicatorType : setIndicator(v)
   \/ \E w \in WageType : setWageType(w)
   \/ \E c \in CharacteristicType : setCharacteristic(c)
   \/ \E f \in FrequencyType : setFrequency(f)
   \/ \E y \in SampledYears : setStartYear(y)
   \/ \E y \in SampledYears : setEndYear(y)
   \/ \E item \in Range(allItems) : toggleItem(item)
   \/ selectAll
   \/ clear

SpecApp == InitApp /\ [][NextApp]_vars

\* the awaited promise rejects: the case the catch block of loadData is
\* written for, which the service of this repository never produces
fetchLaborDataRejects ==
   /\ pc = "called"
   /\ pending > 0
   /\ pc' = "rejected"
   /\ UNCHANGED <<args, categories, data, earlier, app, effects, pending, userEvents, props, rendered, panel>>

\* what React and the microtask queue run without the user: the pending
\* effects and the continuation of loadData
AppInternal ==
   \/ RunEffects
   \/ loadDataSettled

\* the promise of a call settles, one way or the other
Settles == pc = "called" /\ pc' \in {"fulfilled", "rejected"}

\* the loads of the application: the changes of a query parameter, each
\* of which starts one, and what follows them; the selection takes no part
NextLoad ==
   \/ RunEffects
   \/ fetchLaborData
   \/ fetchLaborDataRejects
   \/ loadDataSettled
   \/ \E v \in IndicatorType : setIndicator(v)
   \/ \E w \in WageType : setWageType(w)
   \/ \E c \in CharacteristicType : setCharacteristic(c)
   \/ \E f \in FrequencyType : setFrequency(f)
   \/ \E y \in SampledYears : setStartYear(y)
   \/ \E y \in SampledYears : setEndYear(y)

\* pending effects and continuations always run and a promise always
\* settles; the user need not act
SpecLoad == InitApp /\ [][NextLoad]_vars /\ WF_vars(AppInternal) /\ WF_pc(Settles)

(********************** components/AnalysisPanel.tsx **********************)

\* a text of the model, for a response.text that is not empty
Report == "Report"

NoAnalysis == "No analysis available."

Unable == "Unable to generate analysis at this moment."

\* how the promise of ai.models.generateContent settles: with a response
\* whose text is a text, the empty string or undefined, or by rejecting
Responses ==
   {[rejected |-> FALSE, defined |-> TRUE, text |-> Report],
    [rejected |-> FALSE, defined |-> TRUE, text |-> ""],
    [rejected |-> FALSE, defined |-> FALSE, text |-> ""],
    [rejected |-> TRUE, defined |-> FALSE, text |-> ""]}

\* response.text || 'No analysis available.'
TextOr(r, fallback) == IF r.defined /\ r.text # "" THEN r.text ELSE fallback

\* the number of clicks on the buttons of the panel in a checked behaviour
MaxClicks == 3

\* a click reaches the panel when the application is at rest
PanelClick ==
   /\ Idle
   /\ panel.started + panel.cleared < MaxClicks

\* generateAnalysis behind a button that is rendered in every state
generateAnalysisButtonAlwaysRendered ==
   /\ PanelClick
   /\ panel' = [panel EXCEPT !.loading = TRUE, !.started = @ + 1]
   /\ UNCHANGED <<args, pc, categories, data, earlier, app, effects, pending, userEvents, props, rendered>>

\* a click on the button, rendered when !analysis && !loading:
\* generateAnalysis up to its await
generateAnalysis ==
   /\ panel.analysis = ""
   /\ ~panel.loading
   /\ PanelClick
   /\ panel' = [panel EXCEPT !.loading = TRUE, !.started = @ + 1]
   /\ UNCHANGED <<args, pc, categories, data, earlier, app, effects, pending, userEvents, props, rendered>>

\* the same click when the constructor or the call throws before the
\* await: the catch and the finally block run within the handler
generateAnalysisThrows ==
   /\ panel.analysis = ""
   /\ ~panel.loading
   /\ PanelClick
   /\ panel' = [panel EXCEPT !.analysis = Unable, !.loading = FALSE,
                             !.started = @ + 1, !.settled = @ + 1]
   /\ UNCHANGED <<args, pc, categories, data, earlier, app, effects, pending, userEvents, props, rendered>>

\* generateAnalysis after its await: setAnalysis in the try block or in
\* the catch block, setLoading(false) in the finally block
generateContentSettled(r) ==
   /\ Idle
   /\ panel.started > panel.settled
   /\ panel' = [panel EXCEPT !.analysis = IF r.rejected THEN Unable ELSE TextOr(r, NoAnalysis),
                             !.loading = FALSE,
                             !.settled = @ + 1]
   /\ UNCHANGED <<args, pc, categories, data, earlier, app, effects, pending, userEvents, props, rendered>>

\* a click on Clear, rendered when !loading && analysis
clearAnalysis ==
   /\ ~panel.loading
   /\ panel.analysis # ""
   /\ PanelClick
   /\ panel' = [panel EXCEPT !.analysis = "", !.cleared = @ + 1]
   /\ UNCHANGED <<args, pc, categories, data, earlier, app, effects, pending, userEvents, props, rendered>>

\* the panel within the application: its clicks and its responses, between
\* changes of the props it is rendered with
NextPanel ==
   \/ generateAnalysis
   \/ generateAnalysisThrows
   \/ \E r \in Responses : generateContentSettled(r)
   \/ clearAnalysis
   \/ RunEffects
   \/ fetchLaborData
   \/ loadDataSettled
   \/ \E v \in IndicatorType : setIndicator(v)
   \/ \E c \in CharacteristicType : setCharacteristic(c)

SpecPanel == InitApp /\ [][NextPanel]_vars

(******************************** the chart *******************************)

\* Array.from(new Set(arr)): the elements in the order of their first appearance
RECURSIVE Unique(_)
Unique(arr) ==
   IF arr = << >> THEN << >>
   ELSE LET init == Unique(SubSeq(arr, 1, Len(arr) - 1))
            last == arr[Len(arr)]
        IN  IF includes(init, last) THEN init ELSE Append(init, last)

Periods(points) == [i \in DOMAIN points |-> points[i].period]

Categories(points) == [i \in DOMAIN points |-> points[i].category]

\* data.find(d => d.period === period && d.category === cat): the indices it may return
Found(points, period, cat) ==
   {i \in DOMAIN points : points[i].period = period /\ points[i].category = cat}

\* one item per period, holding the value found for each category that has one
chartData(points) ==
   LET periods == Unique(Periods(points))
       cats == Unique(Categories(points))
   IN  [k \in DOMAIN periods |->
          [period |-> periods[k],
           values |-> [cat \in {c \in Range(cats) : Found(points, periods[k], c) # {}} |->
                          LET first == CHOOSE i \in Found(points, periods[k], cat) :
                                          \A j \in Found(points, periods[k], cat) : i <= j
                          IN  points[first].value]]]

isQuarterly(items) == Len(items) > 0 /\ IncludesQ(items[1].period)

events(quarterly) ==
   << [name |-> "Great Recession",
       start |-> IF quarterly THEN "2008Q2" ELSE "2008",
       end |-> IF quarterly THEN "2013Q4" ELSE "2013"],
      [name |-> "COVID-19",
       start |-> IF quarterly THEN "2020Q1" ELSE "2020",
       end |-> IF quarterly THEN "2021Q2" ELSE "2021"] >>

\* the events returned without the filter
recessionAreasUnfiltered(showEvents, items) ==
   IF ~showEvents THEN << >> ELSE events(isQuarterly(items))

\* a comparison with availablePeriods[0] of an empty array, undefined, is false
recessionAreas(showEvents, items) ==
   IF ~showEvents THEN << >>
   ELSE LET availablePeriods == Periods(items)
        IN  SelectSeq(events(isQuarterly(items)),
               LAMBDA event :
                  \/ includes(availablePeriods, event.start)
                  \/ includes(availablePeriods, event.end)
                  \/ /\ Len(availablePeriods) > 0
                     /\ StringLess(availablePeriods[1], event.start)
                     /\ StringLess(event.end, availablePeriods[Len(availablePeriods)]))

\* the number of observations of a checked data prop
MaxPoints == 3

\* the years of the checked data props: before, at the start of, inside and
\* at the end of the first event, between the events, at the start of the second
ChartYears == {2007, 2008, 2009, 2012, 2013, 2014, 2020}

\* the periods of the checked data props, annual or quarterly
ChartPeriods(quarterly) ==
   IF quarterly
   THEN {QuarterPeriod(2008, 1), QuarterPeriod(2008, 2), QuarterPeriod(2009, 1), QuarterPeriod(2012, 4),
         QuarterPeriod(2013, 4), QuarterPeriod(2014, 1), QuarterPeriod(2020, 1)}
   ELSE {AnnualPeriod(y) : y \in ChartYears}

\* the data props: observations in any order of periods, of two categories
\* in turn, each with a value of its own
ChartData ==
   UNION { { [i \in 1..n |-> [period |-> ps[i],
                              year |-> YearComponent(ps[i]),
                              category |-> IF i % 2 = 1 THEN "Total" ELSE "Madrid",
                              value |-> 100 * i]] :
               ps \in UNION {[1..n -> ChartPeriods(quarterly)] : quarterly \in BOOLEAN} } :
           n \in 0..MaxPoints }

InitChart ==
   /\ props \in [data : ChartData, showEvents : BOOLEAN]
   /\ rendered = NotRendered
   /\ PanelUntouched
   /\ AppNotMounted
   /\ args = Query(AppInitial)
   /\ pc = "idle"
   /\ categories = << >>
   /\ data = << >>
   /\ earlier = << >>

\* the render of the component: its memoized values for the props
ChartContainer ==
   /\ ~rendered.done
   /\ rendered' = [done |-> TRUE,
                   chartData |-> chartData(props.data),
                   isQuarterly |-> isQuarterly(chartData(props.data)),
                   recessionAreas |-> recessionAreas(props.showEvents, chartData(props.data))]
   /\ UNCHANGED <<args, pc, categories, data, earlier, app, effects, pending, userEvents, props, panel>>

NextChart == ChartContainer

SpecChart == InitChart /\ [][NextChart]_vars

(******************************* the claims *******************************)

RECURSIVE SumValues(_)
SumValues(points) ==
   IF points = << >> THEN 0 ELSE Head(points).value + SumValues(Tail(points))

Abs(x) == IF x < 0 THEN -x ELSE x

\* what the function returns for q, as the action computes it
Returned(q) == FreshData \o ForEachCategory(q, getAvailableItems(q.characteristic), 1)

\* C1: two calls with identical arguments return identical observation
\* lists, whatever call was made in between: a settled call whose arguments
\* are those of the remembered earlier call holds the earlier call's list.
C1_Deterministic ==
   \A k \in DOMAIN earlier :
      (pc = "fulfilled" /\ earlier[k].args = args) => data = earlier[k].data

\* a call repeating the remembered call's arguments has settled with a non-empty list
C1_Witness ==
   /\ pc = "fulfilled"
   /\ earlier # << >>
   /\ earlier[1].args = args
   /\ Len(data) > 0

\* the mean, rounded to two decimals, of the values the quarterly twin of
\* the query returns for (cat, year), in hundredths
MeanOfQuarters(quarterly, cat, year) ==
   LET group == SelectSeq(quarterly, LAMBDA p : p.category = cat /\ p.year = year)
   IN  RoundDiv(SumValues(group), Len(group))

QuarterlyTwin == Returned([args EXCEPT !.frequency = QUARTERLY])

source(resolved) == undefined

\* C3 as stated: the resolved result carries one source tag, 'official' or
\* 'simulated'.
C3_ResultCarriesSourceTag ==
   pc = "fulfilled" => source(data) \in {"official", "simulated"}

\* C4: for every breakdown dimension the catalogue is non-empty and starts
\* with "Total": so is the list every call reads.
C4_CatalogStartsWithTotal ==
   /\ \A c \in CharacteristicType :
         Len(getAvailableItems(c)) > 0 /\ getAvailableItems(c)[1] = "Total"
   /\ pc # "called" => (Len(categories) > 0 /\ categories[1] = "Total")

\* a call on the gender dimension has read its catalogue
C4_Witness ==
   pc = "fulfilled" /\ args.characteristic = GENDER /\ categories = <<"Total", "Male", "Female">>

\* C5: the promise never rejects, and a settled promise holds a list of
\* observations (period, year, category, value).
C5_NeverRejects ==
   /\ pc \in {"called", "fulfilled"}
   /\ pc = "fulfilled" =>
         \A i \in DOMAIN data : DOMAIN data[i] = {"period", "year", "category", "value"}

\* a call has resolved with observations
C5_Witness == pc = "fulfilled" /\ Len(data) > 0 /\ args.wageType = undefined

\* the place of a label in the catalogue of the queried dimension
CatalogIndex(cat) ==
   CHOOSE k \in DOMAIN categories : categories[k] = cat

\* C6 as stated: the returned sequence is sorted by period, each period
\* string lexicographically less than or equal to the next one's.
C6_SortedByPeriod ==
   pc = "fulfilled" =>
      \A i \in 1..(Len(data) - 1) :
         data[i].period = data[i + 1].period
         \/ StringLess(data[i].period, data[i + 1].period)

\* C6 amended: the sequence is grouped by category in catalogue order, and
\* sorted by period (strictly ascending) inside each category: of two
\* consecutive observations, the second has a greater period in the same
\* category or belongs to a later category.
C6_SortedWithinCategory ==
   pc = "fulfilled" =>
      \A i \in 1..(Len(data) - 1) :
         IF data[i].category = data[i + 1].category
         THEN StringLess(data[i].period, data[i + 1].period)
         ELSE CatalogIndex(data[i].category) < CatalogIndex(data[i + 1].category)

\* a quarterly result over two years and several categories, in which a
\* later category starts again at the first period
C6_Witness ==
   /\ pc = "fulfilled"
   /\ args.frequency = QUARTERLY
   /\ args.startYear < args.endYear
   /\ \E i \in 1..(Len(data) - 1) :
         /\ data[i].category # data[i + 1].category
         /\ StringLess(data[i + 1].period, data[i].period)

\* C7: every observation's year lies in [startYear, endYear], and every
\* category of the dimension has an observation for every year of the range.
C7_YearsInRangeAndCovered ==
   pc = "fulfilled" =>
      /\ \A i \in DOMAIN data :
            args.startYear <= data[i].year /\ data[i].year <= args.endYear
      /\ \A cat \in Range(getAvailableItems(args.characteristic)) :
            \A year \in args.startYear..args.endYear :
               \E i \in DOMAIN data : data[i].category = cat /\ data[i].year = year

\* a result over more than one year holds the last year of the range for the last category
C7_Witness ==
   /\ pc = "fulfilled"
   /\ args.startYear < args.endYear
   /\ Len(data) > 0
   /\ data[Len(data)].year = args.endYear
   /\ data[Len(data)].category = categories[Len(categories)]
   /\ data[1].year = args.startYear

\* C8: all periods of one result have the granularity of the query (bare
\* years for an annual one, year "Q" quarter for a quarterly one), and each
\* observation's year is the year its period string starts with.
C8_PeriodGranularity ==
   pc = "fulfilled" =>
      \A i \in DOMAIN data :
         LET period == data[i].period
         IN  /\ YearComponent(period) = data[i].year
             /\ IncludesQ(period) = IncludesQ(data[1].period)
             /\ args.frequency = ANNUAL =>
                   \A k \in 1..Len(period) : IsDigit(Char(period, k))
             /\ args.frequency = QUARTERLY =>
                   /\ Len(period) >= 3
                   /\ Char(period, Len(period) - 1) = "Q"
                   /\ Char(period, Len(period)) \in {"1", "2", "3", "4"}
                   /\ \A k \in 1..(Len(period) - 2) : IsDigit(Char(period, k))

\* a quarterly result holds the period "2013Q2" with year 2013
C8_Witness ==
   /\ pc = "fulfilled"
   /\ args.frequency = QUARTERLY
   /\ \E i \in DOMAIN data : data[i].period = "2013Q2" /\ data[i].year = 2013

\* C9: in an annual unemployment-rate result by region, for each year of
\* 2010..2012 the value of "Andalusia" is strictly greater than the value
\* of "Madrid".
C9_AndalusiaAboveMadrid ==
   (/\ pc = "fulfilled"
    /\ args.indicator = UNEMPLOYMENT_RATE
    /\ args.characteristic = REGION
    /\ args.frequency = ANNUAL) =>
      \A i, j \in DOMAIN data :
         (/\ data[i].category = "Andalusia"
          /\ data[j].category = "Madrid"
          /\ data[i].year = data[j].year
          /\ data[i].year \in 2010..2012) => data[i].value > data[j].value

\* such a result holds both regions for a year of 2010..2012
C9_Witness ==
   /\ pc = "fulfilled"
   /\ args.indicator = UNEMPLOYMENT_RATE
   /\ args.characteristic = REGION
   /\ args.frequency = ANNUAL
   /\ args.maxAge <= 30
   /\ \E i, j \in DOMAIN data :
         /\ data[i].category = "Andalusia"
         /\ data[j].category = "Madrid"
         /\ data[i].year = 2012
         /\ data[j].year = 2012
         /\ data[i].value > data[j].value

\* the floor of the queried indicator, in hundredths
FloorOf(indicator) == IF indicator = MONTHLY_WAGE THEN WageFloor * 100 ELSE RateFloor * 100

\* the sum handed to Math.max for the observation data[i], in Unit-ths
SumOf(point) ==
   IF args.frequency = ANNUAL
   THEN AnnualSum(args, point.category, point.year)
   ELSE QuarterSum(args, point.category, point.year,
                   CodeUnit(Char(point.period, Len(point.period))) - 48)

\* C10 as stated: every value respects the floor of its indicator, the
\* floor being applied last before rounding, after the inflation factor:
\* value = round(max(floor, sum x factor)).
C10_ClampIsLastStep ==
   pc = "fulfilled" =>
      \A i \in DOMAIN data :
         LET factored == IF args.indicator = MONTHLY_WAGE /\ args.wageType = CONSTANT_WAGE
                         THEN MulFixed(SumOf(data[i]), inflationFactor(data[i].year))
                         ELSE SumOf(data[i])
         IN  /\ data[i].value >= FloorOf(args.indicator)
             /\ data[i].value = ToFixed2(Max((FloorOf(args.indicator) \div 100) * Unit, factored))

\* C10 amended: every value respects the floor of its indicator (2 for a
\* rate, 700 for the wage); the floor is applied to the nominal value,
\* before the inflation factor, so a constant-basis wage is never below
\* 700 x factor(year).
C10_FloorAppliedToNominal ==
   pc = "fulfilled" =>
      \A i \in DOMAIN data :
         /\ data[i].value >= FloorOf(args.indicator)
         /\ (args.indicator = MONTHLY_WAGE /\ args.wageType = CONSTANT_WAGE) =>
               data[i].value >= ToFixed2(MulFixed(WageFloor * Unit, inflationFactor(data[i].year)))

\* a constant-basis wage whose nominal sum is below the floor is returned
\* as 700 x factor(year), above 700
C10_Witness ==
   /\ pc = "fulfilled"
   /\ args.indicator = MONTHLY_WAGE
   /\ args.wageType = CONSTANT_WAGE
   /\ \E i \in DOMAIN data :
         /\ SumOf(data[i]) < WageFloor * Unit
         /\ data[i].year < RefYear
         /\ data[i].value = ToFixed2(MulFixed(WageFloor * Unit, inflationFactor(data[i].year)))
         /\ data[i].value > WageFloor * 100

\* what the call returns when only its wageType argument is replaced by w
WithWageType(w) == Returned([args EXCEPT !.wageType = w])

\* C11: the value basis is a no-op for the indicators other than the
\* monthly wage: the list a call returns is, observation by observation,
\* the list the same call returns with wageType Constant, with wageType
\* Nominal and with wageType omitted.
C11_BasisIgnoredForRates ==
   (pc = "fulfilled" /\ args.indicator # MONTHLY_WAGE) =>
      /\ data = WithWageType(CONSTANT_WAGE)
      /\ data = WithWageType(NOMINAL)
      /\ data = WithWageType(undefined)

\* a rate query on the constant basis before the reference year has
\* returned a non-empty list, which is also the nominal one
C11_Witness ==
   /\ pc = "fulfilled"
   /\ args.indicator = UNEMPLOYMENT_RATE
   /\ args.wageType = CONSTANT_WAGE
   /\ args.frequency = QUARTERLY
   /\ args.endYear < RefYear
   /\ Len(data) > 0
   /\ data = WithWageType(NOMINAL)

\* the nominal value of the observation before toFixed, in Unit-ths
NominalOf(point) == Max(WageFloor * Unit, SumOf(point))

QuarterOf(point) == CodeUnit(Char(point.period, Len(point.period))) - 48

\* C13 as stated: the quarterly value of the monthly wage has no seasonal
\* component: it is the level of its (category, year) plus the noise term
\* of the quarter alone, floored, put on the value basis and rounded.
C13_NoSeasonalTermForWage ==
   (pc = "fulfilled" /\ args.indicator = MONTHLY_WAGE /\ args.frequency = QUARTERLY) =>
      \A i \in DOMAIN data :
         LET cat == data[i].category
             year == data[i].year
             noise == ((MathSin(2 * (year * 4 + QuarterOf(data[i]) + seed(args, cat))) * 3) \div 10) * 10
             nominalValue == Max(WageFloor * Unit, Level(args, cat, year) + ToUnit(noise))
         IN  data[i].value = ToFixed2(IF args.wageType = CONSTANT_WAGE
                                      THEN MulFixed(nominalValue, inflationFactor(year))
                                      ELSE nominalValue)

\* C13 amended: the seasonal term is added for every indicator, the
\* monthly wage included (there it is scaled by 10, as the noise is); it
\* outweighs the noise between the first and the third quarter, so within
\* every (category, year) of a quarterly query the first-quarter value is
\* never below the third-quarter value and is strictly above it whenever
\* the third-quarter sum is above the floor.
C13_SeasonalTermForEveryIndicator ==
   (pc = "fulfilled" /\ args.frequency = QUARTERLY) =>
      \A i \in DOMAIN data :
         QuarterOf(data[i]) = 1 =>
            /\ i + 2 \in DOMAIN data
            /\ data[i + 2].category = data[i].category
            /\ data[i + 2].year = data[i].year
            /\ QuarterOf(data[i + 2]) = 3
            /\ data[i].value >= data[i + 2].value
            /\ SumOf(data[i + 2]) > (FloorOf(args.indicator) \div 100) * Unit
                  => data[i].value > data[i + 2].value

\* a quarterly wage query has returned a first-quarter value above the
\* third-quarter value of the same category and year, both above the floor
C13_Witness ==
   /\ pc = "fulfilled"
   /\ args.indicator = MONTHLY_WAGE
   /\ args.frequency = QUARTERLY
   /\ args.wageType = NOMINAL
   /\ \E i \in DOMAIN data :
         /\ QuarterOf(data[i]) = 1
         /\ i + 2 \in DOMAIN data
         /\ SumOf(data[i + 2]) > WageFloor * Unit
         /\ data[i].value > data[i + 2].value

\* the adjustment of a category when the call's indicator is the given one
AdjustmentFor(indicator, cat) == catAdjustment([args EXCEPT !.indicator = indicator], cat)

\* C14 as stated: for every two categories A and B of the queried
\* dimension, if A's adjustment for the unemployment rate is strictly
\* higher than B's, A's adjustment for the monthly wage is not higher
\* than B's.
C14_AdjustmentsOpposedForEveryPair ==
   pc = "fulfilled" =>
      \A A, B \in Range(categories) :
         AdjustmentFor(UNEMPLOYMENT_RATE, A) > AdjustmentFor(UNEMPLOYMENT_RATE, B)
            => AdjustmentFor(MONTHLY_WAGE, A) <= AdjustmentFor(MONTHLY_WAGE, B)

\* C14 amended: the opposition holds between the categories the code
\* corrects by name: Andalusia and the Canary Islands have a strictly
\* higher unemployment adjustment and a strictly lower wage adjustment
\* than Madrid and the Basque Country, and Higher Education has a strictly
\* lower unemployment adjustment and a strictly higher wage adjustment
\* than every other category of its dimension.
C14_AdjustmentsOpposedForNamedCategories ==
   pc = "fulfilled" =>
      \A A, B \in Range(categories) :
         ( \/ A \in {"Andalusia", "Canary Islands"} /\ B \in {"Madrid", "Basque Country"}
           \/ A # "Higher Education" /\ B = "Higher Education" ) =>
            /\ AdjustmentFor(UNEMPLOYMENT_RATE, A) > AdjustmentFor(UNEMPLOYMENT_RATE, B)
            /\ AdjustmentFor(MONTHLY_WAGE, A) < AdjustmentFor(MONTHLY_WAGE, B)

\* a call has gone through the regions, Andalusia's adjustments being 3
\* and -610 and Madrid's 0 and 720
C14_Witness ==
   /\ pc = "fulfilled"
   /\ {"Andalusia", "Madrid"} \subseteq Range(categories)
   /\ AdjustmentFor(UNEMPLOYMENT_RATE, "Andalusia") = 3
   /\ AdjustmentFor(MONTHLY_WAGE, "Andalusia") = -610
   /\ AdjustmentFor(UNEMPLOYMENT_RATE, "Madrid") = 0
   /\ AdjustmentFor(MONTHLY_WAGE, "Madrid") = 720

\* the indices of the observations of (cat, year)
GroupOf(cat, year) == {i \in DOMAIN data : data[i].category = cat /\ data[i].year = year}

\* C17: a quarterly query yields, for every category of the dimension and
\* every year of [startYear, endYear], exactly four observations, whose
\* periods are the year followed by Q1, Q2, Q3 and Q4, each once; an annual
\* query yields exactly one observation for every (category, year).
C17_FourQuartersOrOneYear ==
   pc = "fulfilled" =>
      \A cat \in Range(getAvailableItems(args.characteristic)) :
         \A year \in args.startYear..args.endYear :
            IF args.frequency = QUARTERLY
            THEN /\ Cardinality(GroupOf(cat, year)) = 4
                 /\ \A k \in 1..4 :
                       Cardinality({i \in GroupOf(cat, year) :
                                      data[i].period = Digits(year) \o "Q" \o Digits(k)}) = 1
            ELSE Cardinality(GroupOf(cat, year)) = 1

\* a quarterly query over two years has returned the four quarters of
\* Galicia for its second year
C17_Witness ==
   /\ pc = "fulfilled"
   /\ args.frequency = QUARTERLY
   /\ args.endYear = args.startYear + 1
   /\ Cardinality(GroupOf("Galicia", args.endYear)) = 4
   /\ {data[i].period : i \in GroupOf("Galicia", args.endYear)}
         = {Digits(args.endYear) \o "Q" \o Digits(k) : k \in 1..4}

\* the years of the call that are followed by another year of the call
YearsWithSuccessor == {y \in args.startYear..args.endYear : y + 1 <= args.endYear}

\* C18 as stated: the unemployment trend offset declines over the years
\* before 2008, is 3 x (year - 2008) from 2008 to 2013, strictly decreases
\* year over year from 2013 to 2020, and is one constant small residual
\* after 2020.
C18_TrendDeclinesBefore2008 ==
   (pc = "fulfilled" /\ args.indicator = UNEMPLOYMENT_RATE) =>
      /\ \A y \in YearsWithSuccessor :
            /\ y + 1 < 2008 => cycleImpact(args, y + 1) < cycleImpact(args, y)
            /\ (y >= 2013 /\ y + 1 <= 2020) => cycleImpact(args, y + 1) < cycleImpact(args, y)
      /\ \A y \in args.startYear..args.endYear :
            /\ (y >= 2008 /\ y <= 2013) => cycleImpact(args, y) = 3 * (y - 2008) * Unit
            /\ y > 2020 => cycleImpact(args, y) = (-2) * Unit

\* C18 amended: the unemployment trend offset is the constant -5 for every
\* year before 2008 (it does not decline there), is 3 x (year - 2008) from
\* 2008 to 2013, strictly decreases year over year from 2013 to 2020, and
\* is the constant -2 after 2020.
C18_TrendFlatBefore2008 ==
   (pc = "fulfilled" /\ args.indicator = UNEMPLOYMENT_RATE) =>
      /\ \A y \in YearsWithSuccessor :
            (y >= 2013 /\ y + 1 <= 2020) => cycleImpact(args, y + 1) < cycleImpact(args, y)
      /\ \A y \in args.startYear..args.endYear :
            /\ y < 2008 => cycleImpact(args, y) = (-5) * Unit
            /\ (y >= 2008 /\ y <= 2013) => cycleImpact(args, y) = 3 * (y - 2008) * Unit
            /\ y > 2020 => cycleImpact(args, y) = (-2) * Unit

\* an unemployment query over 2006..2007 has settled, both years at -5
C18_Witness ==
   /\ pc = "fulfilled"
   /\ args.indicator = UNEMPLOYMENT_RATE
   /\ args.startYear = 2006
   /\ args.endYear = 2007
   /\ Len(data) > 0
   /\ cycleImpact(args, 2006) = (-5) * Unit
   /\ cycleImpact(args, 2007) = (-5) * Unit

\* C15: an empty category selection is not a failure: whenever no category
\* is selected, whatever the query and whatever rawData holds, the list
\* handed to the consumers is empty, the main section shows the spinner or
\* the "No data found" panel, and no call has been rejected.
C15_EmptySelectionIsEmptyList ==
   app.selectedItems = << >> =>
      /\ filteredData = << >>
      /\ View \in {"spinner", "noData"}
      /\ pc # "rejected"

\* the selection has been cleared over loaded observations, and the
\* "No data found" panel is shown
C15_Witness ==
   /\ Idle
   /\ userEvents > 0
   /\ app.selectedItems = << >>
   /\ Len(app.rawData) > 0
   /\ filteredData = << >>
   /\ View = "noData"

\* the first four entries of a catalogue, all of them if there are fewer
FirstFour(items) == [i \in 1..(IF Len(items) < 4 THEN Len(items) ELSE 4) |-> items[i]]

\* C19: the default pre-selection follows the catalogue order: the step
\* that runs the effects after the breakdown dimension was set or changed
\* leaves selectedItems equal to the first four entries of
\* getAvailableItems(dimension), all of them if there are fewer than four,
\* and so with "Total" among them.
C19_DefaultSelectionIsFirstFour ==
   [][ ("setSelectedItems" \in effects /\ effects' = {}) =>
          /\ app'.selectedItems = FirstFour(getAvailableItems(app'.characteristic))
          /\ includes(app'.selectedItems, "Total") ]_vars

\* the dimension has been changed to the genders after a change of the
\* selection, the effects have run and the three genders are selected
C19_Witness ==
   /\ Idle
   /\ userEvents = 2
   /\ app.characteristic = GENDER
   /\ app.selectedItems = <<"Total", "Male", "Female">>
   /\ \A i \in DOMAIN app.rawData : app.rawData[i].category \in {"Total", "Male", "Female"}
   /\ Len(app.rawData) > 0

\* the interval [event.start, event.end] meets the range [lo, hi] of periods
Intersects(event, lo, hi) == ~StringLess(event.end, lo) /\ ~StringLess(hi, event.start)

\* the periods of the rendered chartData, in its order
ChartedPeriods == Periods(rendered.chartData)

FirstPeriod == ChartedPeriods[1]

LastPeriod == ChartedPeriods[Len(ChartedPeriods)]

LeastPeriod ==
   CHOOSE p \in Range(ChartedPeriods) : \A r \in Range(ChartedPeriods) : ~StringLess(r, p)

GreatestPeriod ==
   CHOOSE p \in Range(ChartedPeriods) : \A r \in Range(ChartedPeriods) : ~StringLess(p, r)

Ascending(periods) ==
   \A i \in DOMAIN periods : i < Len(periods) => StringLess(periods[i], periods[i + 1])

\* C20 as stated: whatever the data list, in ascending order of periods or
\* not, every event of recessionAreas has an interval that intersects the
\* range between the first and the last period of chartData (taken in
\* either direction).
C20_EventsOverlapFirstToLast ==
   rendered.done =>
      \A k \in DOMAIN rendered.recessionAreas :
         /\ ChartedPeriods # << >>
         /\ \/ Intersects(rendered.recessionAreas[k], FirstPeriod, LastPeriod)
            \/ Intersects(rendered.recessionAreas[k], LastPeriod, FirstPeriod)

\* C20 amended: whatever the data list, every event of recessionAreas has
\* an interval that intersects the range from the least to the greatest
\* period of chartData; that is the range from the first to the last
\* period when the periods are in ascending order.
C20_EventsOverlapLeastToGreatest ==
   rendered.done =>
      \A k \in DOMAIN rendered.recessionAreas :
         /\ ChartedPeriods # << >>
         /\ Intersects(rendered.recessionAreas[k], LeastPeriod, GreatestPeriod)
         /\ Ascending(ChartedPeriods) =>
               Intersects(rendered.recessionAreas[k], FirstPeriod, LastPeriod)

\* a list whose periods are 2014, 2013, 2020 in this order has been
\* rendered with both events, the first of which ends before 2014
C20_Witness ==
   /\ rendered.done
   /\ ChartedPeriods = <<"2014", "2013", "2020">>
   /\ Len(rendered.recessionAreas) = 2
   /\ rendered.recessionAreas[1].end = "2013"
   /\ Intersects(rendered.recessionAreas[1], LeastPeriod, GreatestPeriod)

\* the requests the body sends to the remote source while it runs, in
\* order: it sends none, for the aggregate series or for a category
remoteFetches(q) == << >>

\* the path that produces the observations of a category: the loop body
\* has one, the synthetic model, with no condition on it
dataPath(q, cat) == "synthetic"

\* C16 as stated: the aggregate series is fetched once and no series
\* twice, and every category takes the first path that applies: its own
\* fetched series, else the derivation from the fetched aggregate series,
\* else the synthetic model; so a category is given the synthetic model
\* only when it has no series of its own and the one attempt at the
\* aggregate series has failed.
C16_PathsInPriorityOrder ==
   pc = "fulfilled" =>
      LET fetches == remoteFetches(args)
          aggregate == SelectSeq(fetches, LAMBDA f : f.series = "Total")
      IN  /\ Len(aggregate) = 1
          /\ \A i, j \in DOMAIN fetches : fetches[i].series = fetches[j].series => i = j
          /\ \A cat \in Range(categories) :
                dataPath(args, cat) = "synthetic" =>
                   /\ aggregate[1].outcome = "Unavailable"
                   /\ \A i \in DOMAIN fetches : fetches[i].series # cat

\* C21 as stated: with showEvents true, every event whose interval
\* overlaps the range of the charted periods is returned by
\* recessionAreas, also when that range lies strictly inside the interval.
C21_OverlappingEventsReturned ==
   (rendered.done /\ props.showEvents /\ ChartedPeriods # << >>) =>
      \A k \in DOMAIN events(rendered.isQuarterly) :
         Intersects(events(rendered.isQuarterly)[k], LeastPeriod, GreatestPeriod)
            => includes(rendered.recessionAreas, events(rendered.isQuarterly)[k])

\* C22: no two observations of one result share the same (period,
\* category) pair, so the chart's data.find for a (period, category) cell
\* has one observation to return.
C22_PeriodCategoryUnique ==
   pc = "fulfilled" =>
      /\ Cardinality({<<data[i].period, data[i].category>> : i \in DOMAIN data}) = Len(data)
      /\ \A i \in DOMAIN data : Found(data, data[i].period, data[i].category) = {i}

\* a quarterly query over two years has returned the regions, the cells
\* of the first and the last observation being found at their own index
C22_Witness ==
   /\ pc = "fulfilled"
   /\ args.frequency = QUARTERLY
   /\ args.characteristic = REGION
   /\ args.endYear > args.startYear
   /\ Len(data) > 4
   /\ Found(data, data[1].period, data[1].category) = {1}
   /\ Found(data, data[Len(data)].period, data[Len(data)].category) = {Len(data)}

\* the parameters of the query as the application holds them
CurrentParameters ==
   [indicator |-> app.indicator, characteristic |-> app.characteristic,
    frequency |-> app.frequency, startYear |-> app.startYear, endYear |-> app.endYear,
    minAge |-> app.minAge, maxAge |-> app.maxAge, wageType |-> app.wageType]

\* C23: latest query wins: a load that has not completed yet is the one
\* started for the current parameters, there is never more than one, and
\* once every started load has completed the last call is the one made
\* with the current parameters and rawData is the list it resolved with.
C23_LatestQueryWins ==
   /\ pending \in {0, 1}
   /\ (pending = 1 /\ effects = {}) => args = CurrentParameters
   /\ Idle =>
         /\ args = CurrentParameters
         /\ pc = "fulfilled"
         /\ app.rawData = data

\* two changes of the parameters have each started a load, both have
\* completed, and rawData holds the monthly wages by education level
C23_Witness ==
   /\ Idle
   /\ userEvents = 2
   /\ app.indicator = MONTHLY_WAGE
   /\ app.characteristic = EDUCATION
   /\ args = CurrentParameters
   /\ Len(app.rawData) > 0
   /\ app.rawData = data
   /\ \A i \in DOMAIN app.rawData : app.rawData[i].category \in Range(MOCK_EDUCATION)
   /\ \E i \in DOMAIN app.rawData : app.rawData[i].value > 70000

\* C24: while a started load is pending loading is true; the continuation
\* of a load whose fetch rejected leaves rawData as it was and sets loading
\* to false, as the one of a load whose fetch resolved does; and every
\* started load is eventually completed with loading false.
C24_LoadingEventuallyFalse ==
   /\ [](pending > 0 => app.loading)
   /\ [][ pending' < pending =>
             /\ ~app'.loading
             /\ pc = "rejected" => app'.rawData = app.rawData ]_vars
   /\ (pending > 0) ~> (pending = 0 /\ ~app.loading)

\* a load started by a change of the indicator has rejected and completed:
\* loading is false and rawData still holds the unemployment rates
C24_Witness ==
   /\ pending = 0
   /\ pc = "rejected"
   /\ ~app.loading
   /\ userEvents = 1
   /\ app.indicator = MONTHLY_WAGE
   /\ Len(app.rawData) > 0
   /\ \A i \in DOMAIN app.rawData : app.rawData[i].value < 10000

\* C25: once the effects of a commit have run, every selected label is a
\* label of the catalogue of the current characteristic, whatever sequence
\* of toggleItem, Select all, Clear and changes of the characteristic led
\* there; and filteredData holds exactly the observations of rawData whose
\* category is selected, each once.
C25_SelectionWithinCatalogue ==
   LET shown == filteredData
       selected == {i \in DOMAIN app.rawData : includes(app.selectedItems, app.rawData[i].category)}
   IN  /\ effects = {} =>
             \A i \in DOMAIN app.selectedItems : includes(allItems, app.selectedItems[i])
       /\ \A i \in DOMAIN shown : includes(app.selectedItems, shown[i].category)
       /\ Range(shown) = {app.rawData[i] : i \in selected}
       /\ Len(shown) = Cardinality(selected)

\* the characteristic was changed and a label was ticked or unticked after
\* it; the load has settled and the selection keeps a part of rawData
C25_Witness ==
   /\ Idle
   /\ userEvents = 2
   /\ app.characteristic # AppInitial.characteristic
   /\ Len(app.selectedItems) # Len(DefaultSelection(allItems))
   /\ Len(filteredData) > 0
   /\ Len(filteredData) < Len(app.rawData)

\* C26: in every state of the application reached by selections of the
\* start year and of the end year, startYear <= endYear, and the query
\* handed to fetchLaborData has a year range that is not empty.
C26_YearRangeWellFormed ==
   /\ app.startYear <= app.endYear
   /\ pc = "called" => args.startYear <= args.endYear

\* C27: at most one generation of the panel is in flight; one in flight
\* shows as loading; a generation starts only in a state with loading false
\* and an empty analysis; a step that completes one leaves loading false
\* and a non-empty analysis; so every generation after the first follows a
\* click on Clear.
C27_OneGenerationInFlight ==
   /\ [](panel.started - panel.settled \in {0, 1})
   /\ [](panel.started > panel.settled => panel.loading)
   /\ [](panel.started <= panel.cleared + 1)
   /\ [][ /\ panel'.started > panel.started => (~panel.loading /\ panel.analysis = "")
          /\ panel'.settled > panel.settled => (~panel'.loading /\ panel'.analysis # "") ]_vars

\* a report was generated and cleared, and a second generation has failed
C27_Witness ==
   /\ panel.started = 2
   /\ panel.settled = 2
   /\ panel.cleared = 1
   /\ panel.analysis = Unable
   /\ ~panel.loading

====
